---- MODULE Spec2Model ----
(***************************************************************************)
(* eduhelx_utils: the git wrapper (git.py) over the command runner          *)
(* (process.py), as a state machine over one working copy, and the client   *)
(* of the grader API (api.py) with its tokens.                              *)
(*                                                                         *)
(* Text is modelled as TLA+ strings handled character by character          *)
(* (Len, SubSeq, \o), so that startswith / endswith / in / splitlines /     *)
(* split behave as Python's do on the text git prints.                      *)
(***************************************************************************)
EXTENDS Integers, Sequences, FiniteSets, TLC

VARIABLES wc, last, api, now

vars == <<wc, last, api, now>>

(***************************************************************************)
(* Bounds of the model.                                                    *)
(***************************************************************************)
\* commits a working copy may hold
MaxCommits == 3
\* lines of tool output drawn for the parsers (git status, git fetch)
MaxLines == 2

(***************************************************************************)
(* Python str / list primitives used by git.py and process.py.             *)
(***************************************************************************)
Ch(s, i) == SubSeq(s, i, i)

StartsWith(s, p) == Len(s) >= Len(p) /\ SubSeq(s, 1, Len(p)) = p

EndsWith(s, p) == Len(s) >= Len(p) /\ SubSeq(s, Len(s) - Len(p) + 1, Len(s)) = p

\* Python's `p in s` on strings
Contains(s, p) == \E i \in 1..(Len(s) - Len(p) + 1) : SubSeq(s, i, i + Len(p) - 1) = p

\* Python's `x in xs` on lists
InList(x, xs) == \E i \in 1..Len(xs) : xs[i] = x

\* position of the first occurrence of the one-character text c in s, 0 if none
Find(s, c) ==
    IF \E i \in 1..Len(s) : Ch(s, i) = c
    THEN CHOOSE i \in 1..Len(s) : Ch(s, i) = c /\ \A j \in 1..(i - 1) : Ch(s, j) # c
    ELSE 0

RECURSIVE SplitLines(_)
\* str.splitlines(): no entry for the end of the text after a final newline
SplitLines(s) ==
    IF s = "" THEN <<>>
    ELSE LET i == Find(s, "\n")
         IN  IF i = 0 THEN <<s>>
             ELSE <<SubSeq(s, 1, i - 1)>> \o SplitLines(SubSeq(s, i + 1, Len(s)))

RECURSIVE Split(_, _)
\* str.split(sep) for a one-character sep: always at least one field
Split(s, sep) ==
    LET i == Find(s, sep)
    IN  IF i = 0 THEN <<s>>
        ELSE <<SubSeq(s, 1, i - 1)>> \o Split(SubSeq(s, i + 1, Len(s)), sep)

\* str.split(sep, maxsplit=1)
SplitOnce(s, sep) ==
    LET i == Find(s, sep)
    IN  IF i = 0 THEN <<s>>
        ELSE <<SubSeq(s, 1, i - 1), SubSeq(s, i + 1, Len(s))>>

IsSpace(c) == c \in {" ", "\n", "\t", "\r"}

RECURSIVE LStrip(_)
LStrip(s) == IF s # "" /\ IsSpace(Ch(s, 1)) THEN LStrip(SubSeq(s, 2, Len(s))) ELSE s

RECURSIVE RStrip(_)
RStrip(s) == IF s # "" /\ IsSpace(Ch(s, Len(s))) THEN RStrip(SubSeq(s, 1, Len(s) - 1)) ELSE s

\* str.strip()
Strip(s) == LStrip(RStrip(s))

RECURSIVE Lines(_)
\* what a process prints for a list of lines: each line ends in a newline
Lines(ls) == IF ls = <<>> THEN "" ELSE Head(ls) \o "\n" \o Lines(Tail(ls))

Last(xs) == xs[Len(xs)]

(***************************************************************************)
(* process.py                                                              *)
(***************************************************************************)
\* a variant that removes every newline at the end of the text
RECURSIVE remove_trailing_newlines(_)
remove_trailing_newlines(string) ==
    IF EndsWith(string, "\n")
    THEN remove_trailing_newlines(SubSeq(string, 1, Len(string) - 1))
    ELSE string

remove_trailing_newline(string) ==
    IF EndsWith(string, "\n") THEN SubSeq(string, 1, Len(string) - 1) ELSE string

\* proc: what the child process wrote and its return code
execute(proc) ==
    [out       |-> remove_trailing_newline(proc.output),
     err       |-> remove_trailing_newline(proc.error),
     exit_code |-> proc.returncode]

Proc(output, error, returncode) ==
    [output |-> output, error |-> error, returncode |-> returncode]

(***************************************************************************)
(* The working copy on disk, which git.py never caches: every handler      *)
(* re-queries the tool.  A file holds one line; its content is named by    *)
(* the number of the commit that first recorded it (0: no such file).      *)
(* unmerged: the paths left in conflict; bothAdded: those of them that the *)
(* common ancestor did not have.                                           *)
(***************************************************************************)
FileSeq == <<"f">>

Files == {FileSeq[i] : i \in 1..Len(FileSeq)}

BranchNames == {"main", "dev"}

\* object ids as git prints them (40 hex digits)
ObjectIds ==
    <<"89b4c7ab4fb695c7a0a7eb081d92a169a328881e",
      "be80c74d22f2a77d9a87a57ab972b506bd7aab37",
      "c1274fd71e24b5e459e81591798c2104c80828e5",
      "dd46d55349215cd975d2b08e34ed362bc0cd8985",
      "844772cd7ea47b7924f899f3d1d5f3895b4695c2",
      "116a5f07a428fbfe3dda174d81e520fc6483d817",
      "aab89046538f75c25a59724225c38c0447976cfc",
      "d39f81b2e1eb4e1343085b22998caa9b249714f1">>

FullId(c) == ObjectIds[c]

\* the abbreviated object id git prints in its human-readable messages
ShortId(id) == SubSeq(id, 1, 7)

EmptyTree == [f \in Files |-> 0]

NoBranches == [b \in BranchNames |-> 0]

\* a directory that is not (yet) a working copy
EmptyDir ==
    [isRepo    |-> FALSE,
     commits   |-> <<>>,
     branches  |-> NoBranches,
     head      |-> "main",
     index     |-> EmptyTree,
     dirty     |-> {},
     mergeHead |-> 0,
     unmerged  |-> {},
     bothAdded |-> {}]

Sorted(S) == SelectSeq(FileSeq, LAMBDA f : f \in S)

HeadCommit(w) == w.branches[w.head]

TreeOf(w, c) == IF c = 0 THEN EmptyTree ELSE w.commits[c].tree

HeadTree(w) == TreeOf(w, HeadCommit(w))

RECURSIVE Ancestors(_, _)
\* the commit itself plus everything reachable through parent links
Ancestors(w, c) ==
    IF c = 0 THEN {}
    ELSE {c} \cup UNION {Ancestors(w, w.commits[c].parents[i]) :
                            i \in 1..Len(w.commits[c].parents)}

\* the best common ancestor (unique while fewer than six commits exist)
MergeBase(w, a, b) ==
    LET common == Ancestors(w, a) \cap Ancestors(w, b)
    IN  IF common = {} THEN 0
        ELSE CHOOSE c \in common : \A d \in common : d <= c

\* what a revision argument names: 0 when it does not resolve
Resolve(w, rev) ==
    IF rev = "HEAD" THEN HeadCommit(w)
    ELSE IF rev \in BranchNames THEN w.branches[rev]
    ELSE IF \E c \in 1..Len(w.commits) : rev \in {FullId(c), ShortId(FullId(c))}
         THEN CHOOSE c \in 1..Len(w.commits) : rev \in {FullId(c), ShortId(FullId(c))}
         ELSE 0

\* the content a newly staged file gets
NewContent(w) == Len(w.commits) + 1

Staged(w) == {f \in Files : w.index[f] # HeadTree(w)[f]}

Untracked(w) == {f \in w.dirty : w.index[f] = 0}

Ran(proc, w) == [proc |-> proc, wc |-> w]

NotARepo ==
    Proc("", "fatal: not a git repository (or any of the parent directories): .git\n", 128)

UnknownRevision(rev) ==
    "fatal: ambiguous argument '" \o rev \o "': unknown revision or path not in the working tree.\n"
    \o "Use '--' to separate paths from revisions, like this:\n"
    \o "'git <command> [<revision>...] -- [<file>...]'\n"

UnresolvedConflict(what) ==
    "error: " \o what \o " is not possible because you have unmerged files.\n"
    \o "hint: Fix them up in the work tree, and then use 'git add/rm <file>'\n"
    \o "hint: as appropriate to mark resolution and make a commit.\n"
    \o "fatal: Exiting because of an unresolved conflict.\n"

\* the argument that follows `flag` in argv
ArgAfter(argv, flag) ==
    argv[(CHOOSE i \in 1..Len(argv) : argv[i] = flag) + 1]

PrefixAll(prefix, xs, suffix) == [i \in 1..Len(xs) |-> prefix \o xs[i] \o suffix]

\* git init
GitInit(w) ==
    IF w.isRepo
    THEN Ran(Proc("Reinitialized existing Git repository in /repo/.git/\n", "", 0), w)
    ELSE Ran(Proc("Initialized empty Git repository in /repo/.git/\n", "", 0),
             [w EXCEPT !.isRepo = TRUE])

\* git add --verbose <files>
GitAdd(w, files) ==
    LET missing == SelectSeq(files, LAMBDA f : w.index[f] = 0 /\ f \notin w.dirty)
        changed == {files[i] : i \in 1..Len(files)} \cap (w.dirty \cup w.unmerged)
        printed == Sorted(changed \ Untracked(w)) \o Sorted(changed \cap Untracked(w))
    IN  IF ~w.isRepo THEN Ran(NotARepo, w)
        ELSE IF files = <<>>
        THEN Ran(Proc("", "Nothing specified, nothing added.\n"
                          \o "hint: Maybe you wanted to say 'git add .'?\n"
                          \o "hint: Turn this message off by running\n"
                          \o "hint: \"git config advice.addEmptyPathspec false\"\n", 0), w)
        ELSE IF missing # <<>>
        THEN Ran(Proc("", "fatal: pathspec '" \o missing[1] \o "' did not match any files\n", 128), w)
        ELSE Ran(Proc(Lines(PrefixAll("add '", printed, "'")), "", 0),
                 [w EXCEPT !.index = [f \in Files |->
                                         IF f \in changed THEN NewContent(w) ELSE w.index[f]],
                           !.dirty = w.dirty \ changed,
                           !.unmerged = w.unmerged \ changed,
                           !.bothAdded = w.bothAdded \ changed])

\* git rev-parse <rev>
GitRevParse(w, rev) ==
    IF ~w.isRepo THEN Ran(NotARepo, w)
    ELSE IF Resolve(w, rev) = 0 THEN Ran(Proc(rev \o "\n", UnknownRevision(rev), 128), w)
    ELSE Ran(Proc(FullId(Resolve(w, rev)) \o "\n", "", 0), w)

RECURSIVE Descending(_)
Descending(S) ==
    IF S = {} THEN <<>>
    ELSE LET m == CHOOSE c \in S : \A d \in S : d <= c
         IN  <<m>> \o Descending(S \ {m})

\* git rev-list <rev>: one full object id per line, newest first
GitRevList(w, rev) ==
    IF ~w.isRepo THEN Ran(NotARepo, w)
    ELSE IF Resolve(w, rev) = 0 THEN Ran(Proc("", UnknownRevision(rev), 128), w)
    ELSE LET cs == Descending(Ancestors(w, Resolve(w, rev)))
         IN  Ran(Proc(Lines([i \in 1..Len(cs) |-> FullId(cs[i])]), "", 0), w)

\* git commit [--allow-empty] --no-edit -m <summary>
GitCommit(w, argv) ==
    LET n       == Len(w.commits) + 1
        root    == HeadCommit(w) = 0
        parents == (IF root THEN <<>> ELSE <<HeadCommit(w)>>)
                   \o (IF w.mergeHead = 0 THEN <<>> ELSE <<w.mergeHead>>)
    IN  IF ~w.isRepo THEN Ran(NotARepo, w)
        ELSE IF w.unmerged # {}
        THEN Ran(Proc(Lines(PrefixAll("U\t", Sorted(w.unmerged), "")),
                      UnresolvedConflict("Committing"), 128), w)
        ELSE IF ~InList("--allow-empty", argv) /\ Staged(w) = {} /\ w.mergeHead = 0
        THEN Ran(Proc("On branch " \o w.head \o "\nnothing to commit, working tree clean\n",
                      "", 1), w)
        ELSE Ran(Proc("[" \o w.head \o (IF root THEN " (root-commit) " ELSE " ")
                      \o ShortId(FullId(n)) \o "] " \o ArgAfter(argv, "-m") \o "\n", "", 0),
                 [w EXCEPT !.commits = Append(w.commits, [parents |-> parents, tree |-> w.index]),
                           !.branches[w.head] = n,
                           !.mergeHead = 0])

\* git diff --name-only [--diff-filter <filter>]
GitDiff(w, argv) ==
    LET both    == Sorted(w.unmerged \cup {f \in w.dirty : w.index[f] # 0})
        changed == [i \in 1..Len(both) |->
                       IF both[i] \in w.unmerged THEN both[i] \o "\n" \o both[i] ELSE both[i]]
    IN  IF ~w.isRepo
        THEN Ran(Proc("", "warning: Not a git repository. Use --no-index to compare two paths "
                          \o "outside a working tree\n"
                          \o "usage: git diff --no-index [<options>] <path> <path>\n", 129), w)
        ELSE IF InList("--diff-filter", argv) /\ ArgAfter(argv, "--diff-filter") = "U"
        THEN Ran(Proc(Lines(Sorted(w.unmerged)), "", 0), w)
        ELSE Ran(Proc(Lines(changed), "", 0), w)

\* the two-letter code git status prints for a changed path ("" when unchanged)
StatusCode(w, f) ==
    IF f \in w.unmerged THEN (IF f \in w.bothAdded THEN "AA" ELSE "UU")
    ELSE IF f \in Untracked(w) THEN "??"
    ELSE LET x == IF f \notin Staged(w) THEN " "
                  ELSE IF HeadTree(w)[f] = 0 THEN "A" ELSE "M"
             y == IF f \in w.dirty THEN "M" ELSE " "
         IN  IF x = " " /\ y = " " THEN "" ELSE x \o y

\* git status --porcelain=v1: tracked changes first, untracked paths last
GitStatus(w) ==
    LET tracked   == Sorted({f \in Files : StatusCode(w, f) \notin {"", "??"}})
        untracked == Sorted(Untracked(w))
        line(f)   == StatusCode(w, f) \o " " \o f
    IN  IF ~w.isRepo THEN Ran(NotARepo, w)
        ELSE Ran(Proc(Lines([i \in 1..Len(tracked) |-> line(tracked[i])]
                            \o [i \in 1..Len(untracked) |-> line(untracked[i])]), "", 0), w)

\* the three-way merge of one file: base, ours, theirs
MergedFile(b, o, t) == IF o = t THEN o ELSE IF o = b THEN t ELSE IF t = b THEN o ELSE o

ConflictIn(b, o, t) == o # t /\ o # b /\ t # b

\* unpack-trees' refusal to overwrite local files, as merge and checkout print it
WouldBeOverwritten(w, files, cmd, when) ==
    LET local     == Sorted(files \ Untracked(w))
        untracked == Sorted(files \cap Untracked(w))
    IN  (IF local = <<>> THEN ""
         ELSE "error: Your local changes to the following files would be overwritten by "
              \o cmd \o ":\n" \o Lines(PrefixAll("\t", local, ""))
              \o "Please commit your changes or stash them before you " \o when \o ".\n")
        \o (IF untracked = <<>> THEN ""
            ELSE "error: The following untracked working tree files would be overwritten by "
                 \o cmd \o ":\n" \o Lines(PrefixAll("\t", untracked, ""))
                 \o "Please move or remove them before you " \o when \o ".\n")
        \o "Aborting\n"

\* git merge --no-ff --no-edit [--no-commit] <branch>
GitMerge(w, argv) ==
    LET branch    == Last(argv)
        ours      == HeadCommit(w)
        theirs    == Resolve(w, branch)
        base      == TreeOf(w, MergeBase(w, ours, theirs))
        o         == TreeOf(w, ours)
        t         == TreeOf(w, theirs)
        conflicts == {f \in Files : ConflictIn(base[f], o[f], t[f])}
        merged    == [f \in Files |-> MergedFile(base[f], o[f], t[f])]
        touched   == conflicts \cup {f \in Files : merged[f] # o[f]}
        n         == Len(w.commits) + 1
    IN  IF ~w.isRepo THEN Ran(NotARepo, w)
        ELSE IF w.unmerged # {}
        THEN Ran(Proc("", UnresolvedConflict("Merging"), 128), w)
        ELSE IF w.mergeHead # 0
        THEN Ran(Proc("", "fatal: You have not concluded your merge (MERGE_HEAD exists).\n"
                          \o "Please, commit your changes before you merge.\n", 128), w)
        ELSE IF ours = 0
        THEN Ran(Proc("", "fatal: Non-fast-forward commit does not make sense into an empty head\n",
                      128), w)
        ELSE IF theirs = 0
        THEN Ran(Proc("", "merge: " \o branch \o " - not something we can merge\n", 1), w)
        ELSE IF theirs \in Ancestors(w, ours)
        THEN Ran(Proc("Already up to date.\n", "", 0), w)
        ELSE IF Staged(w) # {}
        THEN Ran(Proc("", "error: Your local changes to the following files would be "
                          \o "overwritten by merge:\n"
                          \o Lines(PrefixAll("  ", Sorted(Staged(w)), ""))
                          \o "Merge with strategy ort failed.\n", 2), w)
        ELSE IF w.dirty \cap touched # {}
        THEN Ran(Proc("", WouldBeOverwritten(w, w.dirty \cap touched, "merge", "merge")
                          \o "Merge with strategy ort failed.\n", 2), w)
        ELSE IF conflicts # {}
        THEN Ran(Proc(Lines([i \in 1..Len(Sorted(conflicts)) |->
                                "Auto-merging " \o Sorted(conflicts)[i] \o "\nCONFLICT ("
                                \o (IF base[Sorted(conflicts)[i]] = 0 THEN "add/add" ELSE "content")
                                \o "): Merge conflict in " \o Sorted(conflicts)[i]])
                      \o "Automatic merge failed; fix conflicts and then commit the result.\n",
                      "", 1),
                 [w EXCEPT !.mergeHead = theirs, !.index = merged, !.unmerged = conflicts,
                           !.bothAdded = {f \in conflicts : base[f] = 0}])
        ELSE IF InList("--no-commit", argv)
        THEN Ran(Proc("", "Automatic merge went well; stopped before committing as requested\n", 0),
                 [w EXCEPT !.mergeHead = theirs, !.index = merged])
        ELSE Ran(Proc("Merge made by the 'ort' strategy.\n", "", 0),
                 [w EXCEPT !.commits = Append(w.commits,
                                              [parents |-> <<ours, theirs>>, tree |-> merged]),
                           !.branches[w.head] = n,
                           !.index = merged])

\* git merge --abort
GitMergeAbort(w) ==
    IF ~w.isRepo THEN Ran(NotARepo, w)
    ELSE IF w.mergeHead = 0
    THEN Ran(Proc("", "fatal: There is no merge to abort (MERGE_HEAD missing).\n", 128), w)
    ELSE Ran(Proc("", "", 0),
             [w EXCEPT !.mergeHead = 0, !.unmerged = {}, !.bothAdded = {},
                       !.index = HeadTree(w),
                       !.dirty = w.dirty \ w.unmerged])

\* git checkout [-b] [--force] <branch>
GitCheckout(w, argv) ==
    LET branch  == Last(argv)
        target  == TreeOf(w, w.branches[branch])
        differs == {f \in Files : target[f] # HeadTree(w)[f]}
        blocked == {f \in differs : f \in w.dirty
                                    \/ (f \in Staged(w) /\ w.index[f] # target[f])}
        carried == Sorted((Staged(w) \cup (w.dirty \ Untracked(w))) \ blocked)
        moved   == IF branch = w.head THEN "Already on '" ELSE "Switched to branch '"
    IN  IF ~w.isRepo THEN Ran(NotARepo, w)
        ELSE IF InList("-b", argv)
        THEN IF HeadCommit(w) # 0 /\ (w.branches[branch] # 0)
             THEN Ran(Proc("", "fatal: a branch named '" \o branch \o "' already exists\n", 128), w)
             ELSE Ran(Proc("", "Switched to a new branch '" \o branch \o "'\n", 0),
                      [w EXCEPT !.branches[branch] = HeadCommit(w),
                                !.head = branch,
                                !.mergeHead = 0])
        ELSE IF w.branches[branch] = 0
        THEN Ran(Proc("", "error: pathspec '" \o branch
                          \o "' did not match any file(s) known to git\n", 1), w)
        ELSE IF InList("--force", argv)
        THEN Ran(Proc("", moved \o branch \o "'\n", 0),
                 [w EXCEPT !.head = branch,
                           !.index = target,
                           !.dirty = {f \in Untracked(w) : target[f] = 0},
                           !.mergeHead = 0,
                           !.unmerged = {},
                           !.bothAdded = {}])
        ELSE IF w.unmerged # {}
        THEN Ran(Proc(Lines(PrefixAll("", Sorted(w.unmerged), ": needs merge")),
                      "error: you need to resolve your current index first\n", 1), w)
        ELSE IF blocked # {}
        THEN Ran(Proc("", WouldBeOverwritten(w, blocked, "checkout", "switch branches"), 1), w)
        ELSE Ran(Proc(Lines(PrefixAll("M\t", carried, "")), moved \o branch \o "'\n", 0),
                 [w EXCEPT !.head = branch,
                           !.index = [f \in Files |->
                                         IF f \in Staged(w) THEN w.index[f] ELSE target[f]],
                           !.mergeHead = 0])

\* the tool's wording for a branch that does not exist: releases up to 2.42
\* end the sentence with a full stop, later ones do not
NotFoundWordings == {"not found.", "not found"}

\* git branch -d|-D <branch>
GitBranchDelete(w, argv, wording) ==
    LET branch == Last(argv)
        c      == w.branches[branch]
    IN  IF ~w.isRepo THEN Ran(NotARepo, w)
        ELSE IF branch = w.head
        THEN Ran(Proc("", "error: Cannot delete branch '" \o branch
                          \o "' checked out at '/repo'\n", 1), w)
        ELSE IF c = 0
        THEN Ran(Proc("", "error: branch '" \o branch \o "' " \o wording \o "\n", 1), w)
        ELSE IF ~InList("-D", argv) /\ c \notin Ancestors(w, HeadCommit(w))
        THEN Ran(Proc("", "error: The branch '" \o branch \o "' is not fully merged.\n"
                          \o "If you are sure you want to delete it, run 'git branch -D "
                          \o branch \o "'.\n", 1), w)
        ELSE Ran(Proc("Deleted branch " \o branch \o " (was " \o ShortId(FullId(c)) \o ").\n",
                      "", 0),
                 [w EXCEPT !.branches[branch] = 0])

(***************************************************************************)
(* git.py.  Each function is split where it calls execute: <name>_args is  *)
(* the command line it builds, <name> is what it does with the result.     *)
(* An outcome is either a returned value (with its Python type) or a       *)
(* raised exception (with its constructor arguments).                      *)
(***************************************************************************)
None == "None"

GitException == "GitException"

InvalidGitRepositoryException == "InvalidGitRepositoryException"

Return(rtype, value) ==
    [kind |-> "return", exc |-> "", excArgs |-> <<>>, rtype |-> rtype, value |-> value]

Raise(exc, excArgs) ==
    [kind |-> "raise", exc |-> exc, excArgs |-> excArgs, rtype |-> "", value |-> None]

get_repo_root_args == <<"git", "rev-parse", "--show-toplevel">>

get_repo_root(res) ==
    IF res.err # "" THEN Raise(InvalidGitRepositoryException, <<>>)
    ELSE Return("str", res.out)

get_remote_args(name) == <<"git", "remote", "get-url", name>>

get_remote(res) ==
    IF res.err # "" THEN Raise(InvalidGitRepositoryException, <<>>)
    ELSE Return("str", res.out)

get_head_commit_id_args(branch_name) ==
    <<"git", "rev-parse", IF branch_name = None THEN "HEAD" ELSE branch_name>>

get_head_commit_id(res) ==
    IF res.err # "" THEN Raise(InvalidGitRepositoryException, <<>>)
    ELSE Return("str", res.out)

clone_repository_args(remote_url, remote_name, path) ==
    <<"git", "clone", remote_url, path, "--origin", remote_name>>

clone_repository(res) ==
    LET last_line == Last(Split(res.err, "\n"))
    IN  IF StartsWith(last_line, "fatal:") THEN Raise(GitException, <<last_line>>)
        ELSE Return("NoneType", None)

init_repository_args == <<"git", "init">>

init_repository(res) == Return("NoneType", None)

is_ancestor_commit_args(descendant) == <<"git", "rev-list", descendant>>

\* a variant that leaves the descendant itself out of its ancestor list
is_proper_ancestor_commit(res, ancestor) ==
    LET lines == SplitLines(res.out)
    IN  Return("bool", lines # <<>> /\ InList(ancestor, Tail(lines)))

is_ancestor_commit(res, ancestor) ==
    Return("bool", InList(ancestor, SplitLines(res.out)))

get_commit_parents_args(commit_id) == <<"git", "rev-parse", commit_id \o "^@">>

get_commit_parents(res) ==
    IF StartsWith(res.err, "fatal:") THEN Raise(GitException, <<res.err>>)
    ELSE Return("list", SplitLines(res.out))

diff_status_args(commit_id, diff_filter) ==
    <<"git", "diff", "--name-only">>
    \o (IF diff_filter # None THEN <<"--diff-filter", diff_filter>> ELSE <<>>)
    \o (IF commit_id # None THEN <<commit_id>> ELSE <<>>)

\* line 91 returns the exception object instead of raising it
diff_status(res) ==
    IF Contains(res.err, "Not a git repository")
    THEN Return(InvalidGitRepositoryException, <<>>)
    ELSE Return("list", SplitLines(res.out))

stash_changes_args(message, include_untracked) ==
    <<"git", "stash", "push">>
    \o (IF include_untracked THEN <<"--include-untracked">> ELSE <<>>)
    \o (IF message # None THEN <<"-m", message>> ELSE <<>>)

stash_changes(res) ==
    IF Contains(res.err, "error:") \/ Contains(res.err, "fatal:")
    THEN Raise(GitException, <<res.err>>)
    ELSE Return("NoneType", None)

get_stashed_files_args(include_untracked) ==
    <<"git", "stash", "show", "--name-only">>
    \o (IF include_untracked THEN <<"--include-untracked">> ELSE <<>>)

get_stashed_files(res) ==
    IF Contains(res.err, "error:") \/ Contains(res.err, "fatal:")
    THEN Raise(GitException, <<res.err>>)
    ELSE Return("list", SplitLines(res.out))

pop_stash_args == <<"git", "stash", "pop">>

pop_stash(res) ==
    IF Contains(res.err, "error:") \/ Contains(res.err, "fatal:")
    THEN Raise(GitException, <<res.err>>)
    ELSE Return("NoneType", None)

merge_args(branch_name, ff_only, commit) ==
    <<"git", "merge", IF ff_only THEN "--ff-only" ELSE "--no-ff", "--no-edit">>
    \o (IF ~commit THEN <<"--no-commit">> ELSE <<>>)
    \o <<branch_name>>

\* a variant that also raises whenever git merge exits with a nonzero code
merge_raises_on_exit_code(res) ==
    LET last_line == IF Len(res.err) > 0 THEN Last(SplitLines(res.err)) ELSE ""
    IN  StartsWith(last_line, "fatal:")
        \/ StartsWith(res.err, "merge:") \/ StartsWith(res.err, "error:")
        \/ res.exit_code # 0

\* lines 121-125: whether merge raises on the result of git merge
merge_raises(res) ==
    LET last_line == IF Len(res.err) > 0 THEN Last(SplitLines(res.err)) ELSE ""
    IN  StartsWith(last_line, "fatal:")
        \/ StartsWith(res.err, "merge:") \/ StartsWith(res.err, "error:")

\* unmerged: the outcome of diff_status(diff_filter="U"), which merge returns as it is
merge(res, unmerged) ==
    IF merge_raises(res) THEN Raise(GitException, <<res.err>>)
    ELSE unmerged

abort_merge_args == <<"git", "merge", "--abort">>

\* a variant that classifies the error stream as the other operations do
abort_merge_checked(res) ==
    IF Contains(res.err, "error:") \/ Contains(res.err, "fatal:")
    THEN Raise(GitException, <<res.err>>)
    ELSE Return("NoneType", None)

abort_merge(res) == Return("NoneType", None)

delete_local_branch_args(branch_name, force) ==
    <<"git", "branch", IF force THEN "-D" ELSE "-d", branch_name>>

delete_local_branch(res) ==
    IF EndsWith(res.err, "not found") THEN Return("NoneType", None)
    ELSE IF StartsWith(res.err, "error:") THEN Raise(GitException, <<res.err>>)
    ELSE Return("NoneType", None)

fetch_repository_args(remote_url_or_name) ==
    <<"git", "fetch", "--porcelain", remote_url_or_name>>

fetch_repository(res) ==
    LET errs  == SplitLines(res.err)
        lines == SplitLines(res.out)
    IN  IF \E i \in 1..Len(errs) : StartsWith(errs[i], "fatal:")
        THEN Raise(GitException, <<res.err>>)
        ELSE Return("list", [i \in 1..Len(lines) |-> Split(lines[i], " ")])

checkout_args(branch_name, new_branch, force) ==
    <<"git", "checkout">>
    \o (IF new_branch THEN <<"-b">> ELSE <<>>)
    \o (IF force THEN <<"--force">> ELSE <<>>)
    \o <<branch_name>>

checkout(res) ==
    IF Contains(res.err, "error:") THEN Raise(GitException, <<res.err>>)
    ELSE IF Contains(res.err, "fatal: not a git repository")
    THEN Raise(InvalidGitRepositoryException, <<>>)
    ELSE Return("NoneType", None)

stage_files_args(files) == <<"git", "add", "--verbose">> \o files

stage_files(res) ==
    LET lines == SplitLines(res.out)
    IN  IF res.err # "" THEN Raise(InvalidGitRepositoryException, <<>>)
        ELSE Return("list", [i \in 1..Len(lines) |-> SplitOnce(lines[i], " ")])

restore_args(files, source, staged, worktree) ==
    <<"git", "restore">>
    \o (IF staged THEN <<"--staged">> ELSE <<>>)
    \o (IF worktree THEN <<"--worktree">> ELSE <<>>)
    \o (IF source # None THEN <<"--source", source>> ELSE <<>>)
    \o files

restore(res) ==
    IF Contains(res.err, "error:") \/ Contains(res.err, "fatal:")
    THEN Raise(GitException, <<res.err>>)
    ELSE Return("NoneType", None)

rm_args(files, recursive, cached, force) ==
    <<"git", "rm">>
    \o (IF recursive THEN <<"-r">> ELSE <<>>)
    \o (IF cached THEN <<"--cached">> ELSE <<>>)
    \o (IF force THEN <<"--force">> ELSE <<>>)
    \o files

rm(res) ==
    IF Contains(res.err, "error:") \/ Contains(res.err, "fatal:")
    THEN Raise(GitException, <<res.err>>)
    ELSE Return("NoneType", None)

get_modified_paths_args(untracked) ==
    <<"git", "status", "--porcelain=v1">> \o (IF untracked THEN <<"-u">> ELSE <<>>)

\* lines 219-232: one status line to one entry
ModifiedPath(status_line) ==
    LET line      == Strip(status_line)
        directory == EndsWith(line, "/")
        fields    == SplitOnce(line, " ")
        stripped  == Strip(fields[2])
        unopened  == IF StartsWith(stripped, "\"")
                     THEN SubSeq(stripped, 2, Len(stripped)) ELSE stripped
        unquoted  == IF EndsWith(unopened, "\"")
                     THEN SubSeq(unopened, 1, Len(unopened) - 1) ELSE unopened
    IN  [path |-> unquoted,
         modification_type |-> fields[1],
         type |-> IF directory THEN "directory" ELSE "file"]

get_modified_paths(res) ==
    LET lines == SplitLines(res.out)
    IN  IF \E i \in 1..Len(lines) : Len(SplitOnce(Strip(lines[i]), " ")) < 2
        THEN Raise("ValueError", <<"not enough values to unpack (expected 2, got 1)">>)
        ELSE Return("list", [i \in 1..Len(lines) |-> ModifiedPath(lines[i])])

commit_args(summary, description, no_edit) ==
    <<"git", "commit", "--allow-empty">>
    \o (IF no_edit THEN <<"--no-edit">> ELSE <<>>)
    \o (IF summary # None
        THEN <<"-m", summary>> \o (IF description # None THEN <<"-m", description>> ELSE <<>>)
        ELSE <<>>)

\* a variant that returns what git commit printed (the abbreviated id is in it)
commit_returns_output(res, head) ==
    IF res.err # "" THEN Raise(InvalidGitRepositoryException, <<>>)
    ELSE IF res.exit_code # 0 THEN Raise(GitException, <<res.out>>)
    ELSE Return("str", res.out)

\* a variant that looks at the exit code before it looks at the error stream
commit_exit_code_first(res, head) ==
    IF res.exit_code # 0 THEN Raise(GitException, <<res.out>>)
    ELSE IF res.err # "" THEN Raise(InvalidGitRepositoryException, <<>>)
    ELSE head

\* head: the outcome of get_head_commit_id(), which commit returns as it is
commit(res, head) ==
    IF res.err # "" THEN Raise(InvalidGitRepositoryException, <<>>)
    ELSE IF res.exit_code # 0 THEN Raise(GitException, <<res.out>>)
    ELSE head

push_args(remote_name, branch_name) == <<"git", "push", remote_name, branch_name>>

push(res) ==
    IF Contains(res.err, "fatal: not a git repository")
    THEN Raise(InvalidGitRepositoryException, <<>>)
    ELSE IF Contains(res.err, "fatal:") THEN Raise(GitException, <<res.err>>)
    ELSE IF Contains(res.err, "error:") THEN Raise(GitException, <<res.err>>)
    ELSE Return("NoneType", None)

(***************************************************************************)
(* The calls a single actor makes on one working copy.  `last` is the      *)
(* latest call: its arguments, the command lines it ran, the result of its *)
(* first command, and its outcome.                                         *)
(***************************************************************************)
Called(op, args, cmds, res, outcome) ==
    [op      |-> op,
     args    |-> args,
     cmds    |-> cmds,
     res     |-> res,
     kind    |-> outcome.kind,
     exc     |-> outcome.exc,
     excArgs |-> outcome.excArgs,
     rtype   |-> outcome.rtype,
     value   |-> outcome.value]

NoCall == Called("none", <<>>, <<>>, execute(Proc("", "", 0)), Return("NoneType", None))

Init ==
    /\ wc = EmptyDir
    /\ last = NoCall
    /\ api = None
    /\ now = 0

\* the actor edits a file of the directory; while a merge is in progress
\* only the files left in conflict
WriteFile ==
    \E f \in Files :
        /\ (wc.mergeHead = 0 /\ wc.unmerged = {}) \/ f \in wc.unmerged
        /\ wc' = [wc EXCEPT !.dirty = wc.dirty \cup {f}]
        /\ UNCHANGED <<api, now>>
        /\ last' = Called("write", <<f>>, <<>>, execute(Proc("", "", 0)), Return("NoneType", None))

InitRepository ==
    LET argv == init_repository_args
        ran  == GitInit(wc)
        res  == execute(ran.proc)
    IN  /\ wc' = ran.wc
        /\ UNCHANGED <<api, now>>
        /\ last' = Called("init_repository", <<>>, <<argv>>, res, init_repository(res))

StageFiles ==
    \E files \in {<<>>, <<"f">>} :
        LET argv == stage_files_args(files)
            ran  == GitAdd(wc, files)
            res  == execute(ran.proc)
        IN  /\ wc' = ran.wc
            /\ UNCHANGED <<api, now>>
            /\ last' = Called("stage_files", <<files>>, <<argv>>, res, stage_files(res))

GetHeadCommitId ==
    \E branch_name \in {None, "dev"} :
        LET argv == get_head_commit_id_args(branch_name)
            ran  == GitRevParse(wc, argv[3])
            res  == execute(ran.proc)
        IN  /\ wc' = ran.wc
            /\ UNCHANGED <<api, now>>
            /\ last' = Called("get_head_commit_id", <<branch_name>>, <<argv>>, res,
                              get_head_commit_id(res))

Commit ==
    \E summary \in {"Initial"} :
        LET argv  == commit_args(summary, None, TRUE)
            ran   == GitCommit(wc, argv)
            res   == execute(ran.proc)
            argv2 == get_head_commit_id_args(None)
            ran2  == GitRevParse(ran.wc, argv2[3])
            head  == get_head_commit_id(execute(ran2.proc))
            out   == commit(res, head)
            asked == res.err = "" /\ res.exit_code = 0
        IN  /\ Len(ran.wc.commits) <= MaxCommits
            /\ wc' = IF asked THEN ran2.wc ELSE ran.wc
            /\ UNCHANGED <<api, now>>
            /\ last' = Called("commit", <<summary>>,
                              IF asked THEN <<argv, argv2>> ELSE <<argv>>, res, out)

Checkout ==
    \E branch_name \in BranchNames, new_branch \in BOOLEAN :
        LET argv == checkout_args(branch_name, new_branch, FALSE)
            ran  == GitCheckout(wc, argv)
            res  == execute(ran.proc)
        IN  /\ wc' = ran.wc
            /\ UNCHANGED <<api, now>>
            /\ last' = Called("checkout", <<branch_name, new_branch, FALSE>>, <<argv>>, res,
                              checkout(res))

DiffStatus ==
    \E diff_filter \in {None, "U"} :
        LET argv == diff_status_args(None, diff_filter)
            ran  == GitDiff(wc, argv)
            res  == execute(ran.proc)
        IN  /\ wc' = ran.wc
            /\ UNCHANGED <<api, now>>
            /\ last' = Called("diff_status", <<None, diff_filter>>, <<argv>>, res, diff_status(res))

Merge ==
    \E branch_name \in BranchNames :
        LET argv   == merge_args(branch_name, FALSE, TRUE)
            ran    == GitMerge(wc, argv)
            res    == execute(ran.proc)
            argv2  == diff_status_args(None, "U")
            ran2   == GitDiff(ran.wc, argv2)
            out    == merge(res, diff_status(execute(ran2.proc)))
            raised == merge_raises(res)
        IN  /\ Len(ran.wc.commits) <= MaxCommits
            /\ wc' = IF raised THEN ran.wc ELSE ran2.wc
            /\ UNCHANGED <<api, now>>
            /\ last' = Called("merge", <<branch_name, FALSE, TRUE>>,
                              IF raised THEN <<argv>> ELSE <<argv, argv2>>, res, out)

AbortMerge ==
    LET argv == abort_merge_args
        ran  == GitMergeAbort(wc)
        res  == execute(ran.proc)
    IN  /\ wc' = ran.wc
        /\ UNCHANGED <<api, now>>
        /\ last' = Called("abort_merge", <<>>, <<argv>>, res, abort_merge(res))

DeleteLocalBranch ==
    \E branch_name \in BranchNames, force \in BOOLEAN, wording \in NotFoundWordings :
        LET argv == delete_local_branch_args(branch_name, force)
            ran  == GitBranchDelete(wc, argv, wording)
            res  == execute(ran.proc)
        IN  /\ wc' = ran.wc
            /\ UNCHANGED <<api, now>>
            /\ last' = Called("delete_local_branch", <<branch_name, force>>, <<argv>>, res,
                              delete_local_branch(res))

\* revisions a caller may name: HEAD and full object ids (an id no commit has
\* yet does not resolve); the ancestor asked about is the descendant itself
\* or the second commit
Revisions == {"HEAD"} \cup {FullId(c) : c \in 1..MaxCommits}

IsAncestorCommit ==
    \E descendant \in Revisions : \E ancestor \in {descendant, FullId(2)} :
        LET argv == is_ancestor_commit_args(descendant)
            ran  == GitRevList(wc, descendant)
            res  == execute(ran.proc)
        IN  /\ wc' = ran.wc
            /\ UNCHANGED <<api, now>>
            /\ last' = Called("is_ancestor_commit", <<descendant, ancestor>>, <<argv>>, res,
                              is_ancestor_commit(res, ancestor))

GetModifiedPaths ==
    LET argv == get_modified_paths_args(FALSE)
        ran  == GitStatus(wc)
        res  == execute(ran.proc)
    IN  /\ wc' = ran.wc
        /\ UNCHANGED <<api, now>>
        /\ last' = Called("get_modified_paths", <<FALSE>>, <<argv>>, res, get_modified_paths(res))

Next ==
    \/ WriteFile
    \/ InitRepository
    \/ StageFiles
    \/ GetHeadCommitId
    \/ Commit
    \/ Checkout
    \/ DiffStatus
    \/ Merge
    \/ AbortMerge
    \/ DeleteLocalBranch
    \/ IsAncestorCommit
    \/ GetModifiedPaths

Spec == Init /\ [][Next]_vars

(***************************************************************************)
(* Each function of git.py on each reply git gives to its command, as the  *)
(* child process writes it (before execute trims it): the reply of a       *)
(* successful run and the replies of the failures the command has.         *)
(***************************************************************************)
RemoteUrl == "https://example.org/org/my-repo.git"

ZeroId == "0000000000000000000000000000000000000000"

LocalChanges(cmd, when) ==
    "error: Your local changes to the following files would be overwritten by " \o cmd \o ":\n"
    \o "\tf\nPlease commit your changes or stash them before you " \o when \o ".\nAborting\n"

\* the one-character flags of git fetch --porcelain: fast-forward (blank),
\* forced update, pruned, tag update, new ref, rejected, up to date
FetchFlags == {" ", "+", "-", "t", "*", "!", "="}

FetchRefs ==
    <<"refs/remotes/origin/main", "refs/remotes/origin/dev",
      "refs/remotes/origin/feature", "refs/tags/v1">>

\* one line of git fetch --porcelain: <flag> <old-object-id> <new-object-id> <local-reference>
FetchLine(flag, ref) ==
    LET old == IF flag = "*" THEN ZeroId ELSE FullId(1)
        new == IF flag = "-" THEN ZeroId ELSE IF flag = "=" THEN FullId(1) ELSE FullId(2)
    IN  flag \o " " \o old \o " " \o new \o " " \o ref

\* the flags of the refs a fetch updated, one line each
FetchUpdates == UNION {[1..n -> FetchFlags] : n \in 0..MaxLines}

FetchOutput(flags) == Lines([i \in 1..Len(flags) |-> FetchLine(flags[i], FetchRefs[i])])

\* git fetch --porcelain origin
FetchFailures ==
    {Proc("", "fatal: 'origin' does not appear to be a git repository\n"
              \o "fatal: Could not read from remote repository.\n\n"
              \o "Please make sure you have the correct access rights\n"
              \o "and the repository exists.\n", 128),
     Proc("", "error: unknown option `porcelain'\n"
              \o "usage: git fetch [<options>] [<repository> [<refspec>...]]\n", 129),
     NotARepo}

\* lines of git status --porcelain=v1, in the order git prints them: a path
\* with a space in it is printed in double quotes
StatusLineSeq ==
    <<" M f", "A  \"my file\"", "UU h", "?? \"my dir/\"", "?? d2/", "?? plain.txt">>

\* the lines of one status report
StatusReports ==
    {S \in SUBSET (1..Len(StatusLineSeq)) : Cardinality(S) <= MaxLines}

StatusOutput(S) ==
    Lines(SelectSeq(StatusLineSeq, LAMBDA l : \E i \in S : StatusLineSeq[i] = l))

Replied(op, args, argv, proc, outcome) ==
    Called(op, args, <<argv>>, execute(proc), outcome)

\* git rev-parse --show-toplevel
GetRepoRootRun ==
    \E proc \in
        {Proc("/repo\n", "", 0), NotARepo} :
        /\ UNCHANGED wc
        /\ UNCHANGED <<api, now>>
        /\ last' =
            Replied("get_repo_root", <<>>, get_repo_root_args, proc, get_repo_root(execute(proc)))

\* git remote get-url origin
GetRemoteRun ==
    \E proc \in
        {Proc(RemoteUrl \o "\n", "", 0),
         Proc("", "error: No such remote 'origin'\n", 2),
         NotARepo} :
        /\ UNCHANGED wc
        /\ UNCHANGED <<api, now>>
        /\ last' =
            Replied("get_remote", <<"origin">>, get_remote_args("origin"), proc,
                get_remote(execute(proc)))

\* git clone <url> ./ --origin origin
CloneRepositoryRun ==
    \E proc \in
        {Proc("", "Cloning into '.'...\ndone.\n", 0),
         Proc("", "Cloning into '.'...\nwarning: You appear to have cloned an empty repository.\n", 0),
         Proc("", "fatal: destination path '.' already exists and is not an empty directory.\n", 128),
         Proc("", "Cloning into '.'...\nfatal: repository '" \o RemoteUrl \o "/' not found\n", 128),
         Proc("", "Cloning into '.'...\ndone.\n"
                  \o "error: unable to read sha1 file of f (" \o FullId(3) \o ")\n"
                  \o "fatal: unable to checkout working tree\n"
                  \o "warning: Clone succeeded, but checkout failed.\n"
                  \o "You can inspect what was checked out with 'git status'\n"
                  \o "and retry with 'git restore --source=HEAD :/'\n\n", 128)} :
        /\ UNCHANGED wc
        /\ UNCHANGED <<api, now>>
        /\ last' =
            Replied("clone_repository", <<RemoteUrl, "origin">>,
                clone_repository_args(RemoteUrl, "origin", "./"), proc,
                clone_repository(execute(proc)))

\* git rev-parse HEAD^@
GetCommitParentsRun ==
    \E proc \in
        {Proc("", "", 0),
         Proc(FullId(1) \o "\n", "", 0),
         Proc(FullId(2) \o "\n" \o FullId(1) \o "\n", "", 0),
         Proc("HEAD^@\n", UnknownRevision("HEAD^@"), 128),
         NotARepo} :
        /\ UNCHANGED wc
        /\ UNCHANGED <<api, now>>
        /\ last' =
            Replied("get_commit_parents", <<"HEAD">>, get_commit_parents_args("HEAD"), proc,
                get_commit_parents(execute(proc)))

\* git stash push
StashChangesRun ==
    \E proc \in
        {Proc("Saved working directory and index state WIP on main: "
              \o ShortId(FullId(1)) \o " Initial\n", "", 0),
         Proc("No local changes to save\n", "", 0),
         Proc("", "You do not have the initial commit yet\n", 1),
         Proc("f: needs merge\n", "", 1),
         NotARepo} :
        /\ UNCHANGED wc
        /\ UNCHANGED <<api, now>>
        /\ last' =
            Replied("stash_changes", <<None, FALSE>>, stash_changes_args(None, FALSE), proc,
                stash_changes(execute(proc)))

\* git stash show --name-only
GetStashedFilesRun ==
    \E proc \in
        {Proc("f\n", "", 0),
         Proc("", "No stash entries found.\n", 1),
         NotARepo} :
        /\ UNCHANGED wc
        /\ UNCHANGED <<api, now>>
        /\ last' =
            Replied("get_stashed_files", <<FALSE>>, get_stashed_files_args(FALSE), proc,
                get_stashed_files(execute(proc)))

\* git stash pop
PopStashRun ==
    \E proc \in
        {Proc("On branch main\nChanges not staged for commit:\n\tmodified:   f\n\n"
              \o "Dropped refs/stash@{0} (" \o FullId(2) \o ")\n", "", 0),
         Proc("", "No stash entries found.\n", 1),
         Proc("Auto-merging f\nCONFLICT (content): Merge conflict in f\n"
              \o "The stash entry is kept in case you need it again.\n", "", 1),
         Proc("The stash entry is kept in case you need it again.\n",
              LocalChanges("merge", "merge"), 1),
         NotARepo} :
        /\ UNCHANGED wc
        /\ UNCHANGED <<api, now>>
        /\ last' =
            Replied("pop_stash", <<>>, pop_stash_args, proc, pop_stash(execute(proc)))

\* git merge --no-ff --no-edit dev, and the git diff --name-only --diff-filter U
\* that follows it
MergeRun ==
    \E reply \in
        {[merge |-> Proc("Merge made by the 'ort' strategy.\n f | 2 +-\n", "", 0),
          diff  |-> Proc("", "", 0)],
         [merge |-> Proc("Already up to date.\n", "", 0),
          diff  |-> Proc("", "", 0)],
         [merge |-> Proc("Auto-merging f\nCONFLICT (content): Merge conflict in f\n"
                         \o "Automatic merge failed; fix conflicts and then commit the result.\n",
                         "", 1),
          diff  |-> Proc("f\n", "", 0)],
         [merge |-> Proc("", "fatal: You have not concluded your merge (MERGE_HEAD exists).\n"
                             \o "Please, commit your changes before you merge.\n", 128),
          diff  |-> Proc("", "", 0)],
         [merge |-> Proc("", UnresolvedConflict("Merging"), 128),
          diff  |-> Proc("f\n", "", 0)],
         [merge |-> Proc("", "merge: dev - not something we can merge\n", 1),
          diff  |-> Proc("", "", 0)],
         [merge |-> Proc("", LocalChanges("merge", "merge") \o "Merge with strategy ort failed.\n", 2),
          diff  |-> Proc("f\n", "", 0)],
         [merge |-> NotARepo,
          diff  |-> Proc("", "warning: Not a git repository. Use --no-index to compare two paths "
                             \o "outside a working tree\n"
                             \o "usage: git diff --no-index [<options>] <path> <path>\n", 129)]} :
        LET res    == execute(reply.merge)
            raised == merge_raises(res)
        IN  /\ UNCHANGED <<api, now>>
            /\ last' = Called("merge", <<"dev", FALSE, TRUE>>,
                              IF raised THEN <<merge_args("dev", FALSE, TRUE)>>
                              ELSE <<merge_args("dev", FALSE, TRUE), diff_status_args(None, "U")>>,
                              res, merge(res, diff_status(execute(reply.diff))))
            /\ UNCHANGED wc

\* git branch -d dev
DeleteLocalBranchRun ==
    \E proc \in
        ({Proc("Deleted branch dev (was " \o ShortId(FullId(2)) \o ").\n", "", 0),
         Proc("", "error: The branch 'dev' is not fully merged.\n"
                  \o "If you are sure you want to delete it, run 'git branch -D dev'.\n", 1),
         Proc("", "error: Cannot delete branch 'dev' checked out at '/repo'\n", 1),
         NotARepo}
        \cup {Proc("", "error: branch 'dev' " \o wording \o "\n", 1) : wording \in NotFoundWordings}) :
        /\ UNCHANGED wc
        /\ UNCHANGED <<api, now>>
        /\ last' =
            Replied("delete_local_branch", <<"dev", FALSE>>, delete_local_branch_args("dev", FALSE),
                proc, delete_local_branch(execute(proc)))

FetchRepositoryRun ==
    \E proc \in {Proc(FetchOutput(flags), "", 0) : flags \in FetchUpdates} \cup FetchFailures :
        /\ UNCHANGED wc
        /\ UNCHANGED <<api, now>>
        /\ last' =
            Replied("fetch_repository", <<"origin">>, fetch_repository_args("origin"), proc,
                fetch_repository(execute(proc)))

\* git checkout [-b] dev
CheckoutRun ==
    \E new_branch \in BOOLEAN, proc \in
        {Proc("", "Switched to branch 'dev'\n", 0),
         Proc("M\tf\n", "Already on 'dev'\n", 0),
         Proc("", "Switched to a new branch 'dev'\n", 0),
         Proc("", "fatal: a branch named 'dev' already exists\n", 128),
         Proc("", "error: pathspec 'dev' did not match any file(s) known to git\n", 1),
         Proc("f: needs merge\n", "error: you need to resolve your current index first\n", 1),
         Proc("", LocalChanges("checkout", "switch branches"), 1),
         NotARepo} :
        \* these two are replies to -b only
        /\ new_branch = (Contains(proc.error, "new branch") \/ Contains(proc.error, "already exists"))
        /\ UNCHANGED wc
        /\ UNCHANGED <<api, now>>
        /\ last' =
            Replied("checkout", <<"dev", new_branch, FALSE>>, checkout_args("dev", new_branch, FALSE),
                proc, checkout(execute(proc)))

\* git restore f
RestoreRun ==
    \E proc \in
        {Proc("", "", 0),
         Proc("", "error: pathspec 'f' did not match any file(s) known to git\n", 1),
         Proc("", "error: path 'f' is unmerged\n", 1),
         NotARepo} :
        /\ UNCHANGED wc
        /\ UNCHANGED <<api, now>>
        /\ last' =
            Replied("restore", <<<<"f">>>>, restore_args(<<"f">>, None, FALSE, FALSE), proc,
                restore(execute(proc)))

\* git rm f
RmRun ==
    \E proc \in
        {Proc("rm 'f'\n", "", 0),
         Proc("", "fatal: pathspec 'f' did not match any files\n", 128),
         Proc("", "error: the following file has local modifications:\n    f\n"
                  \o "(use --cached to keep the file, or -f to force removal)\n", 1),
         NotARepo} :
        /\ UNCHANGED wc
        /\ UNCHANGED <<api, now>>
        /\ last' =
            Replied("rm", <<<<"f">>>>, rm_args(<<"f">>, FALSE, FALSE, FALSE), proc,
                rm(execute(proc)))

\* git push origin main
PushRun ==
    \E proc \in
        {Proc("", "To " \o RemoteUrl \o "\n * [new branch]      main -> main\n", 0),
         Proc("", "Everything up-to-date\n", 0),
         Proc("", "error: src refspec main does not match any\n"
                  \o "error: failed to push some refs to '" \o RemoteUrl \o "'\n", 1),
         Proc("", "To " \o RemoteUrl \o "\n ! [rejected]        main -> main (fetch first)\n"
                  \o "error: failed to push some refs to '" \o RemoteUrl \o "'\n", 1),
         Proc("", "fatal: 'origin' does not appear to be a git repository\n"
                  \o "fatal: Could not read from remote repository.\n\n"
                  \o "Please make sure you have the correct access rights\n"
                  \o "and the repository exists.\n", 128),
         NotARepo} :
        /\ UNCHANGED wc
        /\ UNCHANGED <<api, now>>
        /\ last' =
            Replied("push", <<"origin", "main">>, push_args("origin", "main"), proc,
                push(execute(proc)))

\* git commit --allow-empty --no-edit -m Initial, and the git rev-parse HEAD
\* that follows it; a hook may reject the commit without a word, and what a
\* hook writes to its error stream is git commit's error stream
CommitRun ==
    \E reply \in
        {[commit |-> Proc("[main (root-commit) " \o ShortId(FullId(1)) \o "] Initial\n", "", 0),
          head   |-> Proc(FullId(1) \o "\n", "", 0)],
         [commit |-> Proc("[main " \o ShortId(FullId(2)) \o "] Initial\n 1 file changed, "
                          \o "1 insertion(+), 1 deletion(-)\n", "", 0),
          head   |-> Proc(FullId(2) \o "\n", "", 0)],
         [commit |-> Proc("U\tf\n", UnresolvedConflict("Committing"), 128),
          head   |-> Proc(FullId(1) \o "\n", "", 0)],
         [commit |-> Proc("", "", 1),
          head   |-> Proc(FullId(1) \o "\n", "", 0)],
         [commit |-> Proc("[main (root-commit) " \o ShortId(FullId(1)) \o "] Initial\n",
                          "lint: ok\n", 0),
          head   |-> Proc(FullId(1) \o "\n", "", 0)],
         [commit |-> NotARepo,
          head   |-> NotARepo]} :
        LET res   == execute(reply.commit)
            asked == res.err = "" /\ res.exit_code = 0
        IN  /\ UNCHANGED <<api, now>>
            /\ last' = Called("commit", <<"Initial">>,
                              IF asked
                              THEN <<commit_args("Initial", None, TRUE), get_head_commit_id_args(None)>>
                              ELSE <<commit_args("Initial", None, TRUE)>>,
                              res, commit(res, get_head_commit_id(execute(reply.head))))
            /\ UNCHANGED wc

GetModifiedPathsRun ==
    \E S \in StatusReports :
        /\ UNCHANGED wc
        /\ UNCHANGED <<api, now>>
        /\ last' =
            Replied("get_modified_paths", <<FALSE>>, get_modified_paths_args(FALSE),
                Proc(StatusOutput(S), "", 0), get_modified_paths(execute(Proc(StatusOutput(S), "", 0))))

InitRun ==
    /\ wc = EmptyDir
    /\ last = NoCall
    /\ api = None
    /\ now = 0

NextRun ==
    \/ GetRepoRootRun
    \/ GetRemoteRun
    \/ CloneRepositoryRun
    \/ GetCommitParentsRun
    \/ StashChangesRun
    \/ GetStashedFilesRun
    \/ PopStashRun
    \/ MergeRun
    \/ DeleteLocalBranchRun
    \/ FetchRepositoryRun
    \/ CheckoutRun
    \/ RestoreRun
    \/ RmRun
    \/ PushRun
    \/ CommitRun
    \/ GetModifiedPathsRun

SpecRun == InitRun /\ [][NextRun]_vars

(***************************************************************************)
(* Properties of merge, abort_merge, commit and is_ancestor_commit on the  *)
(* working copy (specification Spec).                                      *)
(***************************************************************************)
\* MERGE_HEAD exists: a merge was started and neither concluded nor aborted
MergeInProgress(w) == w.mergeHead # 0

\* a working copy with a commit on the current branch, no merge in progress
\* and nothing uncommitted
CleanCopy(w) ==
    /\ w.isRepo
    /\ HeadCommit(w) # 0
    /\ ~MergeInProgress(w) /\ w.unmerged = {}
    /\ Staged(w) = {} /\ w.dirty = {}

\* the branch names commits the current branch does not have
HasChanges(w, branch) ==
    Resolve(w, branch) # 0 /\ Resolve(w, branch) \notin Ancestors(w, HeadCommit(w))

\* the files both branches changed, differently, since their common ancestor
Overlapping(w, branch) ==
    LET base == TreeOf(w, MergeBase(w, HeadCommit(w), Resolve(w, branch)))
    IN  {f \in Files : ConflictIn(base[f], HeadTree(w)[f], TreeOf(w, Resolve(w, branch))[f])}

\* C2: merge(branch) on a clean working copy whose target branch has changes:
\* without overlapping changes merge returns the empty list and HEAD advances
\* to a new commit (of both parents); with a file both branches changed, merge
\* returns that file's path, taken from the diff_status(diff_filter="U") call
\* it makes after git merge, and HEAD does not move.
C2_MergeOutcome ==
    [][(last'.op = "merge" /\ CleanCopy(wc) /\ HasChanges(wc, last'.args[1])) =>
         LET branch == last'.args[1]
             ran2   == GitDiff(wc', diff_status_args(None, "U"))
         IN  /\ last'.kind = "return" /\ last'.rtype = "list"
             /\ last'.cmds = <<merge_args(branch, FALSE, TRUE), diff_status_args(None, "U")>>
             /\ last'.value = SplitLines(execute(ran2.proc).out)
             /\ Overlapping(wc, branch) = {} =>
                    /\ last'.value = <<>>
                    /\ Len(wc'.commits) = Len(wc.commits) + 1
                    /\ HeadCommit(wc') = Len(wc'.commits)
                    /\ wc'.commits[HeadCommit(wc')].parents
                           = <<HeadCommit(wc), Resolve(wc, branch)>>
                    /\ ~MergeInProgress(wc')
             /\ Overlapping(wc, branch) # {} =>
                    /\ \A f \in Overlapping(wc, branch) : InList(f, last'.value)
                    /\ wc'.commits = wc.commits
                    /\ HeadCommit(wc') = HeadCommit(wc)
                    /\ MergeInProgress(wc') /\ wc'.unmerged = Overlapping(wc, branch)
      ]_vars

\* a merge has just returned the path of the file both branches changed
C2_Witness ==
    /\ last.op = "merge" /\ last.kind = "return"
    /\ last.value = <<"f">>
    /\ last.res.exit_code = 1
    /\ wc.unmerged = {"f"}

C4_CommitReturnsHead ==
    [][/\ (last'.op = "commit" /\ last'.kind = "return") =>
              /\ last'.rtype = "str"
              /\ Len(wc'.commits) = Len(wc.commits) + 1
              /\ HeadCommit(wc') = Len(wc'.commits)
              /\ last'.value = FullId(HeadCommit(wc'))
              /\ Len(last'.value) = 40
       /\ (last.op = "commit" /\ last.kind = "return"
           /\ last'.op = "get_head_commit_id" /\ last'.args = <<None>>) =>
              /\ last'.kind = "return"
              /\ last'.value = last.value
      ]_vars

\* init, nothing staged, commit "Initial": the empty first commit's id is returned
C4_Witness ==
    /\ last.op = "commit" /\ last.kind = "return"
    /\ last.args = <<"Initial">>
    /\ Len(wc.commits) = 1 /\ wc.commits[1].tree = EmptyTree
    /\ last.value = FullId(1)

\* the object ids git rev-list prints for a revision: none when the directory
\* is no working copy or the revision does not resolve
Printed(w, rev) ==
    IF w.isRepo /\ Resolve(w, rev) # 0
    THEN {FullId(c) : c \in Ancestors(w, Resolve(w, rev))}
    ELSE {}

IsCommitId(w, rev) == w.isRepo /\ \E c \in 1..Len(w.commits) : rev = FullId(c)

IsCommitReference(w, rev) == w.isRepo /\ Resolve(w, rev) # 0

\* C5 as stated: is_ancestor_commit never raises, is true exactly when the
\* ancestor is in the list the tool prints for the descendant, is true of
\* (X, X) for every valid commit reference X, and false when the descendant
\* does not resolve.
C5_EveryReference ==
    last.op = "is_ancestor_commit" =>
        /\ last.kind = "return" /\ last.rtype = "bool"
        /\ last.value = (last.args[2] \in Printed(wc, last.args[1]))
        /\ (last.args[1] = last.args[2] /\ IsCommitReference(wc, last.args[1])) => last.value
        /\ ~IsCommitReference(wc, last.args[1]) => ~last.value

\* C5 as amended: the same, with (X, X) true for every X that is the full
\* object id of a commit.
C5_FullIds ==
    last.op = "is_ancestor_commit" =>
        /\ last.kind = "return" /\ last.rtype = "bool"
        /\ last.value = (last.args[2] \in Printed(wc, last.args[1]))
        /\ (last.args[1] = last.args[2] /\ IsCommitId(wc, last.args[1])) => last.value
        /\ ~IsCommitReference(wc, last.args[1]) => ~last.value

\* a commit's full id asked about itself
C5_Witness ==
    /\ last.op = "is_ancestor_commit"
    /\ last.args = <<FullId(2), FullId(2)>>
    /\ IsCommitId(wc, FullId(2))
    /\ last.value = TRUE

\* C6: delete_local_branch returns normally when the named branch does not
\* exist, whatever the force flag and the wording of the tool's diagnostic,
\* and raises GitException on any other error marker.
C6_DeleteLocalBranch ==
    [][last'.op = "delete_local_branch" =>
         LET absent == wc.isRepo /\ wc.branches[last'.args[1]] = 0 /\ last'.args[1] # wc.head
         IN  /\ absent => last'.kind = "return"
             /\ (~absent /\ Contains(last'.res.err, "error:")) =>
                    (last'.kind = "raise" /\ last'.exc = GitException)
      ]_vars

\* C7: diff_status raises InvalidGitRepositoryException outside a working
\* copy and returns a list of paths everywhere else; merge returns a list.
C7_DiffStatusRaises ==
    /\ last.op = "diff_status" =>
           IF wc.isRepo THEN last.kind = "return" /\ last.rtype = "list"
           ELSE last.kind = "raise" /\ last.exc = InvalidGitRepositoryException
    /\ (last.op = "merge" /\ last.kind = "return") => last.rtype = "list"

(***************************************************************************)
(* Properties of the classification and parsing of the tool's replies      *)
(* (specification SpecRun).                                                *)
(***************************************************************************)
ClassifiedOps ==
    {"get_commit_parents", "stash_changes", "get_stashed_files", "pop_stash", "merge",
     "delete_local_branch", "fetch_repository", "checkout", "restore", "rm", "push",
     "clone_repository"}

\* whether the error stream matches one of the patterns the operation looks for
Recognized(op, res) ==
    CASE op = "get_commit_parents" -> StartsWith(res.err, "fatal:")
      [] op \in {"stash_changes", "get_stashed_files", "pop_stash", "restore", "rm", "push"} ->
            Contains(res.err, "error:") \/ Contains(res.err, "fatal:")
      [] op = "merge" -> merge_raises(res)
      [] op = "delete_local_branch" ->
            EndsWith(res.err, "not found") \/ StartsWith(res.err, "error:")
      [] op = "fetch_repository" ->
            \E i \in 1..Len(SplitLines(res.err)) : StartsWith(SplitLines(res.err)[i], "fatal:")
      [] op = "checkout" ->
            Contains(res.err, "error:") \/ Contains(res.err, "fatal: not a git repository")
      [] op = "clone_repository" -> StartsWith(Last(Split(res.err, "\n")), "fatal:")
      [] OTHER -> FALSE

\* C1: an operation with a classified failure outcome raises whenever its
\* command exits with a nonzero code and a nonempty error stream that matches
\* none of the patterns the operation looks for; it never returns normally.
C1_FallbackToFailure ==
    (/\ last.op \in ClassifiedOps
     /\ last.res.exit_code # 0
     /\ last.res.err # ""
     /\ ~Recognized(last.op, last.res))
        => last.kind = "raise"

\* C8: every GitException and InvalidGitRepositoryException raised carries
\* the error stream of the command that failed, as the command wrote it.
C8_ErrorsCarryRawText ==
    (last.kind = "raise" /\ last.exc \in {GitException, InvalidGitRepositoryException})
        => InList(last.res.err, last.excArgs)

\* C9: fetch_repository returns one entry per line of git fetch --porcelain,
\* in the order printed, each of exactly the 4 fields flag, old object id,
\* new object id and ref name, for every flag including the blank one.
C9_FetchEntries ==
    (last.op = "fetch_repository" /\ last.kind = "return") =>
        LET lines == SplitLines(last.res.out)
        IN  /\ Len(last.value) = Len(lines)
            /\ \A i \in 1..Len(lines) :
                   last.value[i] = <<Ch(lines[i], 1), SubSeq(lines[i], 3, 42),
                                     SubSeq(lines[i], 44, 83),
                                     SubSeq(lines[i], 85, Len(lines[i]))>>

\* the path of a status line as the tool means it: without the double quotes
\* it prints around a path with special characters
PathOf(status_line) ==
    LET printed == SubSeq(status_line, 4, Len(status_line))
    IN  IF Len(printed) >= 2 /\ StartsWith(printed, "\"") /\ EndsWith(printed, "\"")
        THEN SubSeq(printed, 2, Len(printed) - 1)
        ELSE printed

\* C10: get_modified_paths returns one entry per status line, in order, with
\* the quotes around a path removed, marked a directory exactly when the path
\* ends in "/", quoted or not.
C10_ModifiedPaths ==
    (last.op = "get_modified_paths" /\ last.kind = "return") =>
        LET lines == SplitLines(last.res.out)
        IN  /\ Len(last.value) = Len(lines)
            /\ \A i \in 1..Len(lines) :
                   /\ last.value[i].path = PathOf(lines[i])
                   /\ (last.value[i].type = "directory") = EndsWith(PathOf(lines[i]), "/")
                   /\ last.value[i].type \in {"directory", "file"}

(***************************************************************************)
(* The order in which commit looks at the result of git commit             *)
(* (specification SpecRun).                                                *)
(***************************************************************************)
\* C11: commit passes --allow-empty on every call and classifies the result
\* of git commit in a fixed order: error-stream text raises
\* InvalidGitRepositoryException whatever the exit code is; with an empty
\* error stream a nonzero exit code raises GitException; only with an empty
\* error stream and exit code 0 does it run git rev-parse HEAD, and it
\* returns the id that command printed.
C11_CommitOrder ==
    last.op = "commit" =>
        /\ Len(last.cmds) >= 1
        /\ SubSeq(last.cmds[1], 1, 3) = <<"git", "commit", "--allow-empty">>
        /\ last.res.err # "" =>
              /\ last.kind = "raise" /\ last.exc = InvalidGitRepositoryException
              /\ Len(last.cmds) = 1
        /\ (last.res.err = "" /\ last.res.exit_code # 0) =>
              /\ last.kind = "raise" /\ last.exc = GitException
              /\ Len(last.cmds) = 1
        /\ (last.res.err = "" /\ last.res.exit_code = 0) =>
              /\ last.cmds = <<last.cmds[1], <<"git", "rev-parse", "HEAD">> >>
              /\ last.kind = "return"
              /\ \E k \in 1..MaxCommits : last.value = FullId(k)
        /\ Len(last.cmds) = 2 => (last.res.err = "" /\ last.res.exit_code = 0)

\* git commit exits with 0 and a hook's text is in its error stream: commit
\* raises InvalidGitRepositoryException and does not ask for HEAD
C11_Witness ==
    /\ last.op = "commit"
    /\ last.res.err = "lint: ok" /\ last.res.exit_code = 0
    /\ last.exc = InvalidGitRepositoryException
    /\ Len(last.cmds) = 1

(***************************************************************************)
(* remove_trailing_newline and execute on the texts a process can write    *)
(* (specification SpecTrim).                                               *)
(***************************************************************************)
MaxLen == 3

\* the texts of at most n characters, of a letter and the newline
RECURSIVE TextsUpTo(_)
TextsUpTo(n) ==
    IF n = 0 THEN {""}
    ELSE LET shorter == TextsUpTo(n - 1)
         IN  shorter \cup {s \o c : s \in shorter, c \in {"a", "\n"}}

Texts == TextsUpTo(MaxLen)

RemoveTrailingNewline ==
    \E string \in Texts :
        /\ UNCHANGED wc
        /\ UNCHANGED <<api, now>>
        /\ last' = Called("remove_trailing_newline", <<string>>, <<>>, execute(Proc("", "", 0)),
                          Return("str", remove_trailing_newline(string)))

\* the result of remove_trailing_newline is given to it again
RemoveTrailingNewlineAgain ==
    /\ last.op = "remove_trailing_newline"
    /\ UNCHANGED wc
    /\ UNCHANGED <<api, now>>
    /\ last' = Called("remove_trailing_newline", <<last.value>>, <<>>, execute(Proc("", "", 0)),
                      Return("str", remove_trailing_newline(last.value)))

\* execute(cmd): the process wrote output and error and ended with returncode
Execute ==
    \E output \in Texts, error \in Texts, returncode \in {0, 1, 128} :
        LET res == execute(Proc(output, error, returncode))
        IN  /\ UNCHANGED wc
            /\ UNCHANGED <<api, now>>
            /\ last' = Called("execute", <<output, error, returncode>>, <<>>, res,
                              Return("tuple", <<res.out, res.err, res.exit_code>>))

InitTrim ==
    /\ wc = EmptyDir
    /\ last = NoCall
    /\ api = None
    /\ now = 0

NextTrim ==
    \/ RemoveTrailingNewline
    \/ RemoveTrailingNewlineAgain
    \/ Execute

SpecTrim == InitTrim /\ [][NextTrim]_vars

\* trimmed is text without one newline at its end, or text itself when text
\* does not end in a newline
TrimmedOf(text, trimmed) ==
    IF Len(text) > 0 /\ Ch(text, Len(text)) = "\n"
    THEN text = trimmed \o "\n"
    ELSE text = trimmed

\* C12: remove_trailing_newline removes at most one newline, the last
\* character: a text that ends in exactly one newline comes back without it
\* and ends in no newline, every other character (newlines inside the text
\* too) stays, a text without a newline at its end comes back as it is, and
\* so does an already-trimmed text given to it again.  execute returns the
\* output and the error stream trimmed this way with the exit code as it
\* was, and returns normally whatever the exit code is.
C12_RemoveTrailingNewline ==
    [][/\ last'.op = "remove_trailing_newline" =>
              LET t == last'.args[1]
                  r == last'.value
              IN  /\ last'.kind = "return"
                  /\ TrimmedOf(t, r)
                  /\ (Len(t) >= 1 /\ Ch(t, Len(t)) = "\n"
                      /\ (Len(t) = 1 \/ Ch(t, Len(t) - 1) # "\n")) =>
                          /\ t = r \o "\n"
                          /\ ~(Len(r) > 0 /\ Ch(r, Len(r)) = "\n")
                  /\ (last.op = "remove_trailing_newline" /\ t = last.value
                      /\ ~(Len(t) > 0 /\ Ch(t, Len(t)) = "\n")) => r = t
       /\ last'.op = "execute" =>
              /\ last'.kind = "return"
              /\ TrimmedOf(last'.args[1], last'.value[1])
              /\ TrimmedOf(last'.args[2], last'.value[2])
              /\ last'.value[3] = last'.args[3]
      ]_vars

\* execute has returned a failing process's output and error stream, each
\* without its last newline: "\na\n" has kept its first newline
C12_Witness ==
    /\ last.op = "execute"
    /\ last.args = <<"a\n\n", "\na\n", 128>>
    /\ last.kind = "return"
    /\ last.value = <<"a\n", "\na", 128>>

(***************************************************************************)
(* api.py: the client of the grader API and its tokens.  `api` is the      *)
(* client object, `now` is time.time().  An absent value (Python's None)   *)
(* of a token or of an expiry time is <<>>; a token is <<kind, exp>>, the  *)
(* claims jwt.decode reads from it, and an expiry time is <<exp>>.  What a *)
(* call sent is the list of its HTTP requests, each with the               *)
(* Authorization header it carried and the status code it was answered     *)
(* with.                                                                   *)
(***************************************************************************)
jwt_refresh_leeway_seconds == 60

MaxTicks == 5

\* Api(...): module is the file the class is defined in
Api(module) ==
    [module            |-> module,
     access_token      |-> <<>>,
     access_token_exp  |-> <<>>,
     refresh_token     |-> <<>>,
     refresh_token_exp |-> <<>>]

\* how a method of the client ended: the client after it, the requests it
\* sent, and its return value or the exception it raised
Step(self, sent, outcome) ==
    [api     |-> self,
     sent    |-> sent,
     kind    |-> outcome.kind,
     exc     |-> outcome.exc,
     excArgs |-> outcome.excArgs,
     rtype   |-> outcome.rtype,
     value   |-> outcome.value]

\* src/api.py, self.access_token = value: jwt.decode is given the value
\* whatever it is, after the value has been stored
src_set_access_token(self, value) ==
    LET stored == [self EXCEPT !.access_token = value]
    IN  IF value # <<>>
        THEN Step([stored EXCEPT !.access_token_exp = <<value[2]>>], <<>>, Return("NoneType", None))
        ELSE Step(stored, <<>>,
                  Raise("DecodeError", <<"Invalid token type. Token must be a <class 'bytes'>">>))

\* src/api.py, self.refresh_token = value
src_set_refresh_token(self, value) ==
    LET stored == [self EXCEPT !.refresh_token = value]
    IN  IF value # <<>>
        THEN Step([stored EXCEPT !.refresh_token_exp = <<value[2]>>], <<>>, Return("NoneType", None))
        ELSE Step(stored, <<>>,
                  Raise("DecodeError", <<"Invalid token type. Token must be a <class 'bytes'>">>))

\* self.access_token = value, by the class the client is an instance of
set_access_token(self, value) ==
    LET stored == [self EXCEPT !.access_token = value]
    IN  IF self.module = "src/api.py" THEN src_set_access_token(self, value)
        ELSE IF value # <<>>
        THEN Step([stored EXCEPT !.access_token_exp = <<value[2]>>], <<>>, Return("NoneType", None))
        ELSE Step([stored EXCEPT !.access_token_exp = <<>>], <<>>, Return("NoneType", None))

\* self.refresh_token = value
set_refresh_token(self, value) ==
    LET stored == [self EXCEPT !.refresh_token = value]
    IN  IF self.module = "src/api.py" THEN src_set_refresh_token(self, value)
        ELSE IF value # <<>>
        THEN Step([stored EXCEPT !.refresh_token_exp = <<value[2]>>], <<>>, Return("NoneType", None))
        ELSE Step([stored EXCEPT !.refresh_token_exp = <<>>], <<>>, Return("NoneType", None))

handle_response(self, response) ==
    IF response.status_code = 200 THEN Step(self, <<>>, Return("json", response.json))
    ELSE IF response.status_code = 401
    THEN LET cleared == set_access_token(self, <<>>)
         IN  IF cleared.kind = "raise" THEN cleared
             ELSE Step(cleared.api, <<>>, Raise("UnauthorizedException", <<"You aren't logged in">>))
    ELSE IF response.status_code = 403
    THEN Step(self, <<>>,
              Raise("ForbiddenException", <<"You lack the permission to make this API request">>))
    ELSE Step(self, <<>>, Raise("APIException", <<response.status_code>>))

\* the grader API's answer to a request: reply is the status code it
\* answers this endpoint with and the lifetimes of the tokens it issues
Respond(endpoint, reply) ==
    LET status_code == IF endpoint \in {"login", "refresh"} THEN reply.auth ELSE reply.status
    IN  [status_code |-> status_code,
         json |-> IF status_code # 200 THEN "error"
                  ELSE IF endpoint = "login"
                  THEN [access_token  |-> <<"access", now + reply.access_life>>,
                        refresh_token |-> <<"refresh", now + reply.refresh_life>>]
                  ELSE IF endpoint = "refresh"
                  THEN <<"access", now + reply.access_life>>
                  ELSE "student"]

RECURSIVE make_request(_, _, _, _)

\* a variant whose except clause clears the access token only
refresh_access_token_keeps_refresh_token(self, reply) ==
    LET res == make_request(self, "refresh", FALSE, reply)
        set == IF res.kind = "raise" THEN res ELSE set_access_token(res.api, res.value)
    IN  IF set.kind = "return" THEN Step(set.api, res.sent, set)
        ELSE Step(set_access_token(set.api, <<>>).api, res.sent, set_access_token(set.api, <<>>))

refresh_access_token(self, reply) ==
    LET res == make_request(self, "refresh", FALSE, reply)
        set == IF res.kind = "raise" THEN res ELSE set_access_token(res.api, res.value)
    IN  IF set.kind = "return" THEN Step(set.api, res.sent, set)
        ELSE \* except:
             LET no_access == set_access_token(set.api, <<>>)
             IN  IF no_access.kind = "raise" THEN Step(no_access.api, res.sent, no_access)
                 ELSE Step(set_refresh_token(no_access.api, <<>>).api, res.sent,
                           set_refresh_token(no_access.api, <<>>))

\* auth_type is AuthType.PASSWORD, the default
login(self, reply) ==
    LET res == make_request(self, "login", FALSE, reply)
    IN  IF res.kind = "raise" THEN res
        ELSE LET access == set_access_token(res.api, res.value.access_token)
             IN  IF access.kind = "raise" THEN Step(access.api, res.sent, access)
                 ELSE Step(set_refresh_token(access.api, res.value.refresh_token).api, res.sent,
                           set_refresh_token(access.api, res.value.refresh_token))

\* a variant that refreshes only once the token has less than the leeway left
ensure_access_token_late(self, reply) ==
    IF \/ self.refresh_token = <<>>
       \/ self.refresh_token_exp = <<>>
       \/ self.refresh_token_exp[1] - now < jwt_refresh_leeway_seconds
    THEN login(self, reply)
    ELSE IF \/ self.access_token = <<>>
            \/ self.access_token_exp = <<>>
            \/ self.access_token_exp[1] - now < jwt_refresh_leeway_seconds
    THEN refresh_access_token(self, reply)
    ELSE Step(self, <<>>, Return("NoneType", None))

ensure_access_token(self, reply) ==
    IF \/ self.refresh_token = <<>>
       \/ self.refresh_token_exp = <<>>
       \/ self.refresh_token_exp[1] - now <= jwt_refresh_leeway_seconds
    THEN login(self, reply)
    ELSE IF \/ self.access_token = <<>>
            \/ self.access_token_exp = <<>>
            \/ self.access_token_exp[1] - now <= jwt_refresh_leeway_seconds
    THEN refresh_access_token(self, reply)
    ELSE Step(self, <<>>, Return("NoneType", None))

make_request(self, endpoint, verify_credentials, reply) ==
    LET ensured  == IF verify_credentials THEN ensure_access_token(self, reply)
                    ELSE Step(self, <<>>, Return("NoneType", None))
        response == Respond(endpoint, reply)
        request  == [endpoint      |-> endpoint,
                     Authorization |-> ensured.api.access_token,
                     status_code   |-> response.status_code]
        handled  == handle_response(ensured.api, response)
    IN  IF ensured.kind = "raise" THEN ensured
        ELSE Step(handled.api, ensured.sent \o <<request>>, handled)

\* await api.get_my_role(), as every public method a request with
\* verify_credentials=True
GetMyRole ==
    \E auth \in {200, 401, 500}, status \in {200, 401, 403, 500},
       access_life \in {120, 180}, refresh_life \in {240, 300} :
        LET done == make_request(api, "role/self", TRUE,
                        [auth |-> auth, status |-> status,
                         access_life |-> access_life, refresh_life |-> refresh_life])
        IN  /\ api' = done.api
            /\ UNCHANGED <<wc, now>>
            /\ last' = Called("get_my_role", <<>>, done.sent, execute(Proc("", "", 0)), done)

\* time passes
Tick ==
    /\ now < MaxTicks * jwt_refresh_leeway_seconds
    /\ now' = now + jwt_refresh_leeway_seconds
    /\ UNCHANGED <<wc, last, api>>

InitApi ==
    /\ wc = EmptyDir
    /\ last = NoCall
    /\ api = Api("eduhelx_utils/api.py")
    /\ now = 0

NextApi ==
    \/ GetMyRole
    \/ Tick

SpecApi == InitApi /\ [][NextApi]_vars

(***************************************************************************)
(* Properties of the client's credential step and of its tokens            *)
(* (specification SpecApi; a step that leaves `now` as it is is a          *)
(* request of the client).                                                 *)
(***************************************************************************)
\* C13: a request with verify_credentials=True first sends a login request
\* exactly when the refresh token is absent or expires within the leeway,
\* otherwise a refresh request exactly when the access token is absent or
\* expires within the leeway, otherwise no auth request; never more than
\* one auth request, never an auth request before an auth request, and the
\* request itself, when it is sent, comes last.
C13_CredentialStep ==
    [][now' = now =>
          LET sent        == last'.cmds
              login_due   == \/ api.refresh_token = <<>>
                             \/ api.refresh_token_exp[1] - now <= jwt_refresh_leeway_seconds
              refresh_due == /\ ~login_due
                             /\ \/ api.access_token = <<>>
                                \/ api.access_token_exp[1] - now <= jwt_refresh_leeway_seconds
              auth        == {i \in 1..Len(sent) : sent[i].endpoint \in {"login", "refresh"}}
          IN  /\ last'.op = "get_my_role"
              /\ Len(sent) \in 1..2
              /\ login_due <=> sent[1].endpoint = "login"
              /\ refresh_due <=> sent[1].endpoint = "refresh"
              /\ (~login_due /\ ~refresh_due) <=> auth = {}
              /\ auth \subseteq {1}
              /\ \A i \in 1..Len(sent) : sent[i].endpoint = "role/self" <=> i \notin auth
              /\ Len(sent) = 2 => auth = {1}
      ]_vars

\* the access token was about to expire and the refresh token was not: one
\* refresh request, then the request with the new token
C13_Witness ==
    /\ last.op = "get_my_role"
    /\ now = 2 * jwt_refresh_leeway_seconds
    /\ Len(last.cmds) = 2
    /\ last.cmds[1].endpoint = "refresh" /\ last.cmds[1].status_code = 200
    /\ last.cmds[2].endpoint = "role/self"
    /\ last.cmds[2].Authorization = api.access_token
    /\ api.access_token # <<>>
    /\ last.kind = "return"

\* C14: a refresh request that fails leaves the client with neither token
\* and raises nothing: the request that was waiting is sent without an
\* Authorization header and alone decides how the call ends, and the next
\* request of the client starts with a login.  A 401 answer to the request
\* or to a login clears the access token and leaves the refresh token as it
\* was, so that the next request of the client starts with a refresh while
\* the refresh token is not within the leeway of its expiry.
C14_TokenRecovery ==
    [][now' = now =>
          LET sent == last'.cmds
              done == sent[Len(sent)]
          IN  /\ (sent[1].endpoint = "refresh" /\ sent[1].status_code # 200) =>
                    /\ api'.access_token = <<>> /\ api'.refresh_token = <<>>
                    /\ Len(sent) = 2
                    /\ done.endpoint = "role/self" /\ done.Authorization = <<>>
                    /\ last'.kind = "return" <=> done.status_code = 200
                    /\ last'.exc = "UnauthorizedException" <=> done.status_code = 401
                    /\ last'.exc = "ForbiddenException" <=> done.status_code = 403
                    /\ last'.exc = "APIException" <=> done.status_code = 500
              /\ (last.op = "get_my_role" /\ last.cmds[1].endpoint = "refresh"
                  /\ last.cmds[1].status_code # 200) =>
                    sent[1].endpoint = "login"
              /\ (done.status_code = 401 /\ sent[1].endpoint # "refresh") =>
                    /\ last'.exc = "UnauthorizedException"
                    /\ api'.access_token = <<>>
                    /\ IF sent[1].endpoint = "login" /\ Len(sent) = 2
                       THEN api'.refresh_token # <<>>
                       ELSE /\ api'.refresh_token = api.refresh_token
                            /\ api'.refresh_token_exp = api.refresh_token_exp
              /\ (done.status_code = 401 /\ sent[1].endpoint = "refresh"
                  /\ sent[1].status_code = 200) =>
                    /\ last'.exc = "UnauthorizedException"
                    /\ api'.access_token = <<>>
                    /\ api'.refresh_token = api.refresh_token
                    /\ api'.refresh_token_exp = api.refresh_token_exp
              /\ (/\ last.op = "get_my_role"
                  /\ last.cmds[Len(last.cmds)].status_code = 401
                  /\ api.refresh_token # <<>>
                  /\ api.refresh_token_exp[1] - now > jwt_refresh_leeway_seconds) =>
                    sent[1].endpoint = "refresh"
      ]_vars

\* the refresh request was answered with 401: both tokens are gone and the
\* request went out without an Authorization header
C14_Witness ==
    /\ last.op = "get_my_role"
    /\ Len(last.cmds) = 2
    /\ last.cmds[1].endpoint = "refresh" /\ last.cmds[1].status_code = 401
    /\ last.cmds[2].endpoint = "role/self" /\ last.cmds[2].Authorization = <<>>
    /\ last.cmds[2].status_code = 200 /\ last.kind = "return"
    /\ api.access_token = <<>> /\ api.refresh_token = <<>>

(***************************************************************************)
(* The repository defines the class Api twice: in eduhelx_utils/api.py and *)
(* in src/api.py.  The two differ in the token setters and in the          *)
(* appstore login; _ensure_access_token, _handle_response, _make_request   *)
(* and _refresh_access_token are the same text.  SpecApis is the client of *)
(* either class.                                                           *)
(***************************************************************************)
InitApis ==
    /\ wc = EmptyDir
    /\ last = NoCall
    /\ api \in {Api("eduhelx_utils/api.py"), Api("src/api.py")}
    /\ now = 0

SpecApis == InitApis /\ [][NextApi]_vars

\* C15: in every state of the client access_token_exp is None exactly when
\* access_token is None, refresh_token_exp is None exactly when
\* refresh_token is None, and no call has ended in the error jwt.decode
\* raises when it is given None.
C15_TokenInvariant ==
    /\ (api.access_token_exp = <<>>) <=> (api.access_token = <<>>)
    /\ (api.refresh_token_exp = <<>>) <=> (api.refresh_token = <<>>)
    /\ last.exc # "DecodeError"
====
